---- MODULE Spec2Model ----
(***************************************************************************)
(* A model of src/script.js: the per-frame classification loop              *)
(* (processVideo / detectGaze), the debounced dispatcher (sendDirection and *)
(* the closure it hands to setTimeout) and the Web Bluetooth connection     *)
(* lifecycle (click handler, connectBluetooth, disconnectBluetooth,         *)
(* onDisconnected).                                                         *)
(*                                                                          *)
(* The browser runs every handler to completion on one thread, so each      *)
(* handler (and each continuation of an async function between two awaits)  *)
(* is one atomic action.  Timers created with the same delay fire in the    *)
(* order they were created, so the pending setTimeout closures are a FIFO.  *)
(***************************************************************************)
EXTENDS Integers, Sequences, FiniteSets, TLC

\* ------------------------------------------------------------------ bounds
\* pending setTimeout closures the model lets pile up
MaxTimers == 2
\* connectBluetooth invocations the model lets be in flight together
MaxAttempts == 2

\* --------------------------------------------------------------- constants
\* line 22: BLINK_RATIO_THRESHOLD = 0.25, in hundredths
BLINK_RATIO_THRESHOLD == 25
\* line 24: GAZE_THRESHOLD_LOW = 0.40, in hundredths
GAZE_THRESHOLD_LOW == 40
\* line 25: GAZE_THRESHOLD_HIGH = 0.60, in hundredths
GAZE_THRESHOLD_HIGH == 60
\* line 200: the foreground mass a sample must exceed
MIN_MASS == 100

Null == "null"
\* the receivers the chooser of navigator.bluetooth.requestDevice can return
Devices == {"d1", "d2"}

NO_FACE == "NO FACE"
\* the directions processVideo can compute besides NO FACE
Dirs == {"LEFT", "RIGHT", "CENTER", "BLINK"}
Direction == Dirs \cup {NO_FACE}

VARIABLES
    pcCv,               \* where onCvReady stands: boot, loading, done
    faceCascade,        \* undefined | object (truthy once constructed)
    eyeCascade,
    camera,             \* off | requested | playing | denied
    streaming,          \* line 12
    raf,                \* a requestAnimationFrame(processVideo) callback is pending
    tick,               \* what the last processVideo run did
    bleDevice,          \* line 17
    bleCharacteristic,  \* line 18: the device whose characteristic is held, or Null
    lastSentDirection,  \* line 19
    timers,             \* pending setTimeout closures: the direction each captured
    gattConnected,      \* device.gatt.connected, per device
    listener,           \* onDisconnected is registered on the device
    attempts,           \* connectBluetooth invocations suspended at an await
    wire,               \* the payloads the last step passed to writeValue
    written,            \* the last payload written on the handle now held, if any
    fault,              \* what became of an error of the last step's writeValue
    osc,                \* observer: progress of an A, B, A oscillation
    settle,             \* observer: the direction the stream settled on, and its writes
    stale               \* observer: pending timers armed before the last disconnect

bleVars == <<bleDevice, bleCharacteristic, gattConnected, listener, attempts>>
cvVars == <<pcCv, faceCascade, eyeCascade, camera, streaming, raf>>
vars == <<pcCv, faceCascade, eyeCascade, camera, streaming, raf, tick,
          bleDevice, bleCharacteristic, lastSentDirection, timers,
          gattConnected, listener, attempts, wire, written, fault,
          osc, settle, stale>>
obsVars == <<osc, settle, stale>>

\* ------------------------------------------------------- frame classifier
\* An eye rectangle as eyeCascade.detectMultiScale reports it inside the face
\* region, with the image detectGaze derives from it: fg[c] is the number of
\* foreground pixels of `proc` in pixel column c - 1 (0-based column c - 1).
Eye(x, width, height, fg) == [x |-> x, width |-> width, height |-> height, fg |-> fg]
Face(eyes) == [eyes |-> eyes]

RECURSIVE Sum(_)
Sum(s) == IF s = <<>> THEN 0 ELSE Head(s) + Sum(Tail(s))

\* cv.moments(proc, true): m00 counts the foreground pixels, m10 sums their
\* 0-based column indexes
Moments(fg) ==
    [m00 |-> Sum(fg), m10 |-> Sum([c \in 1..Len(fg) |-> (c - 1) * fg[c]])]

\* the band test of detectGaze on ratio = (m10 / m00) / cols, cross-multiplied
\* so that it is exact on integers (m00 > 0 and cols > 0 where it is used)
RatioBand(m, cols) ==
    IF m.m10 * 100 < GAZE_THRESHOLD_LOW * m.m00 * cols THEN "LEFT"
    ELSE IF m.m10 * 100 > GAZE_THRESHOLD_HIGH * m.m00 * cols THEN "RIGHT"
    ELSE "CENTER"

\* variant for C20: a mass equal to the threshold accepted
MassOk_Inclusive(m) == m.m00 >= MIN_MASS

\* the mass guard of detectGaze
MassOk(m) == m.m00 > MIN_MASS

detectGaze(eyeRect) ==
    LET m == Moments(eyeRect.fg)
    IN  IF MassOk(m) THEN RatioBand(m, eyeRect.width) ELSE "CENTER"

\* variant for C17: a ratio equal to the threshold counted as a blink
IsBlink_Inclusive(eyeRect) ==
    eyeRect.height * 100 <= BLINK_RATIO_THRESHOLD * eyeRect.width

\* leftEyeRect.height / leftEyeRect.width < BLINK_RATIO_THRESHOLD
IsBlink(eyeRect) == eyeRect.height * 100 < BLINK_RATIO_THRESHOLD * eyeRect.width

\* Array.prototype.sort with (a, b) => a.x - b.x: stable, ascending x
RECURSIVE Insert(_, _)
Insert(e, s) ==
    IF s = <<>> THEN <<e>>
    ELSE IF e.x < Head(s).x THEN <<e>> \o s
    ELSE <<Head(s)>> \o Insert(e, Tail(s))

\* variant for C19: the rectangles left in detector order
SortByX_DetectorOrder(s) == s

RECURSIVE SortByX(_)
SortByX(s) ==
    IF s = <<>> THEN <<>>
    ELSE Insert(s[Len(s)], SortByX(SubSeq(s, 1, Len(s) - 1)))

\* variant for C8: direction starts as CENTER instead of NO FACE
Classify_DefaultCenter(faces) ==
    IF Len(faces) > 0
    THEN LET eyes == faces[1].eyes
         IN  IF Len(eyes) >= 2
             THEN LET leftEyeRect == SortByX(eyes)[1]
                  IN  IF IsBlink(leftEyeRect)
                      THEN [direction |-> "BLINK", eyesRun |-> TRUE, gazeRun |-> FALSE]
                      ELSE [direction |-> detectGaze(leftEyeRect), eyesRun |-> TRUE,
                            gazeRun |-> TRUE]
             ELSE [direction |-> "CENTER", eyesRun |-> TRUE, gazeRun |-> FALSE]
    ELSE [direction |-> "CENTER", eyesRun |-> FALSE, gazeRun |-> FALSE]

\* variant for C18: one eye rectangle is enough
Classify_OneEye(faces) ==
    IF Len(faces) > 0
    THEN LET eyes == faces[1].eyes
         IN  IF Len(eyes) >= 1
             THEN LET leftEyeRect == SortByX(eyes)[1]
                  IN  IF IsBlink(leftEyeRect)
                      THEN [direction |-> "BLINK", eyesRun |-> TRUE, gazeRun |-> FALSE]
                      ELSE [direction |-> detectGaze(leftEyeRect), eyesRun |-> TRUE,
                            gazeRun |-> TRUE]
             ELSE [direction |-> NO_FACE, eyesRun |-> TRUE, gazeRun |-> FALSE]
    ELSE [direction |-> NO_FACE, eyesRun |-> FALSE, gazeRun |-> FALSE]

\* the direction one processVideo run computes from what the two cascades
\* report, and which detectors it ran on the way
Classify(faces) ==
    IF Len(faces) > 0
    THEN LET eyes == faces[1].eyes
         IN  IF Len(eyes) >= 2
             THEN LET leftEyeRect == SortByX(eyes)[1]
                  IN  IF IsBlink(leftEyeRect)
                      THEN [direction |-> "BLINK", eyesRun |-> TRUE, gazeRun |-> FALSE]
                      ELSE [direction |-> detectGaze(leftEyeRect), eyesRun |-> TRUE,
                            gazeRun |-> TRUE]
             ELSE [direction |-> NO_FACE, eyesRun |-> TRUE, gazeRun |-> FALSE]
    ELSE [direction |-> NO_FACE, eyesRun |-> FALSE, gazeRun |-> FALSE]

\* ----------------------------------------------------------- input frames
eyeLeft(x) == Eye(x, 5, 110, <<60, 41, 0, 0, 0>>)
eyeCentre(x) == Eye(x, 5, 110, <<0, 0, 101, 0, 0>>)
eyeRight(x) == Eye(x, 5, 110, <<0, 0, 0, 1, 100>>)
eyeFaint(x) == Eye(x, 5, 110, <<100, 0, 0, 0, 0>>)
eyeShut(x) == Eye(x, 5, 1, <<1, 1, 1, 1, 1>>)
eyeSquat(x) == Eye(x, 4, 1, <<1, 1, 1, 1>>)
\* a flat rectangle, 40 by 9, whose twelve leftmost columns are foreground
eyeNarrow(x) == Eye(x, 40, 9, [c \in 1..40 |-> IF c <= 12 THEN 9 ELSE 0])
\* the whole foreground in the second of five pixel columns
eyeInner(x) == Eye(x, 5, 110, <<0, 101, 0, 0, 0>>)

\* what the detectors can report for one frame: a sequence of faces in
\* detector order, each with the eye rectangles found inside it
Frames ==
    { <<>>,
      <<Face(<<>>)>>,
      <<Face(<<eyeLeft(10)>>)>>,
      <<Face(<<eyeLeft(10), eyeRight(40)>>)>>,
      <<Face(<<eyeLeft(40), eyeRight(10)>>)>>,
      <<Face(<<eyeCentre(10), eyeShut(40)>>)>>,
      <<Face(<<eyeRight(40), eyeShut(10), eyeLeft(25)>>)>>,
      <<Face(<<eyeFaint(10), eyeLeft(40)>>)>>,
      <<Face(<<eyeSquat(10), eyeShut(40)>>)>>,
      <<Face(<<eyeNarrow(10), eyeRight(60)>>)>>,
      <<Face(<<eyeInner(10), eyeRight(40)>>)>>,
      <<Face(<<>>), Face(<<eyeLeft(10), eyeRight(40)>>)>>,
      <<Face(<<eyeCentre(10), eyeRight(40)>>), Face(<<eyeShut(10), eyeShut(40)>>)>> }

\* what processVideo computes for each of the frames, tabulated once
Verdict == [faces \in Frames |-> Classify(faces)]

\* ---------------------------------------------------------------- payload
\* the characters of the string literals the code compares and sends
Chars(s) ==
    CASE s = "LEFT" -> <<"L", "E", "F", "T">>
      [] s = "RIGHT" -> <<"R", "I", "G", "H", "T">>
      [] s = "CENTER" -> <<"C", "E", "N", "T", "E", "R">>
      [] s = "BLINK" -> <<"B", "L", "I", "N", "K">>
      [] s = NO_FACE -> <<"N", "O", " ", "F", "A", "C", "E">>
      [] OTHER -> <<>>

CodePoint(c) ==
    CASE c = " " -> 32 [] c = "A" -> 65 [] c = "B" -> 66 [] c = "C" -> 67
      [] c = "E" -> 69 [] c = "F" -> 70 [] c = "G" -> 71 [] c = "H" -> 72
      [] c = "I" -> 73 [] c = "K" -> 75 [] c = "L" -> 76 [] c = "N" -> 78
      [] c = "O" -> 79 [] c = "R" -> 82 [] c = "T" -> 84

\* new TextEncoder().encode(direction): UTF-8, one byte per ASCII character
Encode(s) == [i \in 1..Len(Chars(s)) |-> CodePoint(Chars(s)[i])]

\* no call of writeValue
NoWrite == <<>>

\* no error from writeValue
NoFault == "none"

NoOsc == [stage |-> 0, a |-> "", b |-> ""]
NoSettle == [dir |-> "", n |-> 0]

\* bleDevice && bleDevice.gatt.connected, and the same test of any reference
IsUp(d) == IF d = Null THEN FALSE ELSE gattConnected[d]

\* ------------------------------------------------------------------- init
NoTick == [direction |-> "", eyesRun |-> FALSE, gazeRun |-> FALSE]

Init ==
    /\ pcCv = "boot"
    /\ faceCascade = "undefined"
    /\ eyeCascade = "undefined"
    /\ camera = "off"
    /\ streaming = FALSE
    /\ raf = FALSE
    /\ tick = NoTick
    /\ bleDevice = Null
    /\ bleCharacteristic = Null
    /\ lastSentDirection = ""
    /\ timers = <<>>
    /\ gattConnected = [d \in Devices |-> FALSE]
    /\ listener = [d \in Devices |-> FALSE]
    /\ attempts = <<>>
    /\ wire = NoWrite
    /\ written = <<>>
    /\ fault = NoFault
    /\ osc = NoOsc
    /\ settle = NoSettle
    /\ stale = 0

\* ---------------------------------------------------------------- startup
\* window.Module.onRuntimeInitialized -> onCvReady: the two fetches start
OnCvReady ==
    /\ pcCv = "boot"
    /\ pcCv' = "loading"
    /\ wire' = NoWrite
    /\ fault' = NoFault
    /\ UNCHANGED <<faceCascade, eyeCascade, camera, streaming, raf, tick,
                   lastSentDirection, timers, written>>
    /\ UNCHANGED bleVars

\* startCamera: getUserMedia is asked for unless the stream already runs
startCamera == IF streaming THEN camera ELSE "requested"

\* variant for C16: the result of CascadeClassifier.load ignored
CascadesSettled_IgnoresInit(fOk, eOk, fInit, eInit) ==
    /\ pcCv = "loading"
    /\ pcCv' = "done"
    /\ IF ~fOk \/ ~eOk
       THEN UNCHANGED <<faceCascade, eyeCascade, camera>>
       ELSE /\ faceCascade' = "object"
            /\ eyeCascade' = "object"
            /\ camera' = startCamera
    /\ wire' = NoWrite
    /\ fault' = NoFault
    /\ UNCHANGED <<streaming, raf, tick, lastSentDirection, timers, written>>
    /\ UNCHANGED bleVars

\* the .then of Promise.all in onCvReady; fOk, eOk are what createFileFromUrl
\* returned, fInit, eInit what CascadeClassifier.load returned
CascadesSettled(fOk, eOk, fInit, eInit) ==
    /\ pcCv = "loading"
    /\ pcCv' = "done"
    /\ IF ~fOk \/ ~eOk
       THEN UNCHANGED <<faceCascade, eyeCascade, camera>>
       ELSE /\ faceCascade' = "object"
            /\ eyeCascade' = "object"
            /\ camera' = IF ~fInit \/ ~eInit THEN camera ELSE startCamera
    /\ wire' = NoWrite
    /\ fault' = NoFault
    /\ UNCHANGED <<streaming, raf, tick, lastSentDirection, timers, written>>
    /\ UNCHANGED bleVars

\* getUserMedia settles: the stream plays, or the .catch reports a denial
CameraSettled(granted) ==
    /\ camera = "requested"
    /\ camera' = IF granted THEN "playing" ELSE "denied"
    /\ wire' = NoWrite
    /\ fault' = NoFault
    /\ UNCHANGED <<pcCv, faceCascade, eyeCascade, streaming, raf, tick,
                   lastSentDirection, timers, written>>
    /\ UNCHANGED bleVars

\* the canplay listener: the first event starts the frame loop
CanPlay ==
    /\ camera = "playing"
    /\ ~streaming
    /\ streaming' = TRUE
    /\ raf' = TRUE
    /\ wire' = NoWrite
    /\ fault' = NoFault
    /\ UNCHANGED <<pcCv, faceCascade, eyeCascade, camera, tick,
                   lastSentDirection, timers, written>>
    /\ UNCHANGED bleVars

\* ------------------------------------------------------------- dispatcher
\* variant for C6: the comparison with lastSentDirection left out
ShouldSchedule_IgnoresLast(direction) ==
    /\ bleCharacteristic # Null
    /\ direction # NO_FACE

\* variant for C7: the NO FACE test left out
ShouldSchedule_AllowsNoFace(direction) ==
    /\ bleCharacteristic # Null
    /\ direction # lastSentDirection

\* variant for C12: the test of the handle left out
ShouldSchedule_NoHandleTest(direction) ==
    /\ direction # NO_FACE
    /\ direction # lastSentDirection

\* the three early returns of sendDirection, negated
ShouldSchedule(direction) ==
    /\ bleCharacteristic # Null
    /\ direction # NO_FACE
    /\ direction # lastSentDirection

\* the test the deferred closure makes when it fires
CommitSend(direction) == lastSentDirection = direction

\* sendDirection(direction): remember the candidate and arm a timer for it
sendDirection(direction) ==
    IF ShouldSchedule(direction)
    THEN /\ lastSentDirection' = direction
         /\ timers' = Append(timers, direction)
    ELSE UNCHANGED <<lastSentDirection, timers>>

\* one run of processVideo on the frame the detectors see as `faces`
Tick(faces) ==
    /\ raf
    /\ raf' = TRUE
    /\ IF ~streaming \/ faceCascade = "undefined" \/ eyeCascade = "undefined"
       THEN UNCHANGED <<tick, lastSentDirection, timers>>
       ELSE /\ tick' = Verdict[faces]
            /\ sendDirection(Verdict[faces].direction)
    /\ wire' = NoWrite
    /\ fault' = NoFault
    /\ UNCHANGED <<pcCv, faceCascade, eyeCascade, camera, streaming, written>>
    /\ UNCHANGED bleVars

\* where in its try block a processVideo run can throw before it has a
\* direction: while capturing and finding faces, while cutting the face region
\* and finding eyes, or inside detectGaze
Stages == {"capture", "eyes", "gaze"}

\* what is left of a run that threw at that stage: no direction
Threw(stage) ==
    [direction |-> "", eyesRun |-> stage # "capture", gazeRun |-> stage = "gaze"]

\* variant for C15: requestAnimationFrame inside the try block
TickThrows_Halts(stage) ==
    /\ raf
    /\ streaming
    /\ faceCascade # "undefined"
    /\ eyeCascade # "undefined"
    /\ raf' = FALSE
    /\ tick' = Threw(stage)
    /\ wire' = NoWrite
    /\ fault' = NoFault
    /\ UNCHANGED <<pcCv, faceCascade, eyeCascade, camera, streaming,
                   lastSentDirection, timers, written>>
    /\ UNCHANGED bleVars

\* one run of processVideo in which a statement before line 168 throws: the
\* catch reports it, sendDirection is not reached, and the statement after the
\* try requests the next frame.  (A throw after line 169, in imshow or a
\* delete, leaves what Tick describes.)
TickThrows(stage) ==
    /\ raf
    /\ streaming
    /\ faceCascade # "undefined"
    /\ eyeCascade # "undefined"
    /\ raf' = TRUE
    /\ tick' = Threw(stage)
    /\ wire' = NoWrite
    /\ fault' = NoFault
    /\ UNCHANGED <<pcCv, faceCascade, eyeCascade, camera, streaming,
                   lastSentDirection, timers, written>>
    /\ UNCHANGED bleVars

\* bleCharacteristic.writeValue(enc.encode(direction)) inside the try: a null
\* handle throws a TypeError that the catch swallows
WriteValue(direction) ==
    IF bleCharacteristic = Null THEN NoWrite ELSE <<Encode(direction)>>

\* How the writeValue call of the closure can go wrong.  With a null handle the
\* property access throws a TypeError inside the try, and the catch logs it.
\* On a handle, writeValue returns a promise and reports a failed write by
\* rejecting it; the promise is neither awaited nor given a handler, so the
\* rejection is outside the try and nothing handles it.
WriteFaults(direction) ==
    IF ~CommitSend(direction) THEN {NoFault}
    ELSE IF bleCharacteristic = Null THEN {"caught"}
    ELSE {NoFault, "unhandled"}

\* the oldest pending setTimeout closure runs
TimerFire ==
    /\ timers # <<>>
    /\ timers' = Tail(timers)
    /\ fault' \in WriteFaults(Head(timers))
    /\ IF CommitSend(Head(timers))
       THEN /\ wire' = WriteValue(Head(timers))
            /\ written' = IF bleCharacteristic = Null THEN written
                          ELSE WriteValue(Head(timers))
       ELSE /\ wire' = NoWrite
            /\ UNCHANGED written
    /\ UNCHANGED <<tick, lastSentDirection>>
    /\ UNCHANGED cvVars
    /\ UNCHANGED bleVars

\* ------------------------------------------------------------- link session
\* a connectBluetooth invocation suspended at an await: pc names the promise
\* it waits for, dev the device that promise belongs to, and live is FALSE
\* once the browser has doomed the promise to reject
Attempt(pc, dev, live) == [pc |-> pc, dev |-> dev, live |-> live]

Remove(s, i) == SubSeq(s, 1, i - 1) \o SubSeq(s, i + 1, Len(s))

\* The suspended invocations are anonymous: nothing tells two of them apart
\* but where they stand.  They are kept in one fixed order, so that the same
\* set of invocations is the same state.
Rank(a) ==
    (CASE a.pc = "request" -> 0 [] a.pc = "connect" -> 6 [] OTHER -> 12)
    + (CASE a.dev = Null -> 0 [] a.dev = "d1" -> 2 [] OTHER -> 4)
    + (IF a.live THEN 0 ELSE 1)

RECURSIVE Place(_, _)
Place(a, s) ==
    IF s = <<>> THEN <<a>>
    ELSE IF Rank(a) < Rank(Head(s)) THEN <<a>> \o s
    ELSE <<Head(s)>> \o Place(a, Tail(s))

RECURSIVE Canon(_)
Canon(s) == IF s = <<>> THEN <<>> ELSE Place(Head(s), Canon(Tail(s)))

\* what a disconnect of device d does to the suspended invocations: the GATT
\* promises of the ended connection reject; gatt.disconnect() also aborts a
\* pending gatt.connect()
Doom(atts, d, byCall) ==
    Canon([i \in 1..Len(atts) |->
        IF atts[i].dev = d /\ (atts[i].pc = "lookup"
                               \/ (byCall /\ atts[i].pc = "connect"))
        THEN [atts[i] EXCEPT !.live = FALSE]
        ELSE atts[i]])

\* the gattserverdisconnected event of d reaches onDisconnected
Dispatches(d) == listener[d]

\* variant for C22: onDisconnected leaves lastSentDirection as it is
Disconnect_KeepsLast(d, atts, byCall) ==
    /\ gattConnected' = [gattConnected EXCEPT ![d] = FALSE]
    /\ attempts' = Doom(atts, d, byCall)
    /\ IF Dispatches(d)
       THEN /\ bleDevice' = Null
            /\ bleCharacteristic' = Null
            /\ written' = <<>>
            /\ UNCHANGED lastSentDirection
       ELSE UNCHANGED <<bleDevice, bleCharacteristic, lastSentDirection, written>>
    /\ UNCHANGED listener

\* The GATT connection of d ends (gatt.disconnect() or a drop of the link); the
\* browser fires gattserverdisconnected at d, and onDisconnected runs if it is
\* registered there.  atts are the invocations that stay suspended.
Disconnect(d, atts, byCall) ==
    /\ gattConnected' = [gattConnected EXCEPT ![d] = FALSE]
    /\ attempts' = Doom(atts, d, byCall)
    /\ IF Dispatches(d)
       THEN \* onDisconnected
            /\ bleDevice' = Null
            /\ bleCharacteristic' = Null
            /\ lastSentDirection' = ""
            /\ written' = <<>>
       ELSE UNCHANGED <<bleDevice, bleCharacteristic, lastSentDirection, written>>
    /\ UNCHANGED listener

\* the catch block of connectBluetooth, run by invocation i, which ends
CatchBT(i) ==
    IF IsUp(bleDevice)
    THEN Disconnect(bleDevice, Remove(attempts, i), TRUE)
    ELSE /\ attempts' = Remove(attempts, i)
         /\ UNCHANGED <<bleDevice, bleCharacteristic, gattConnected,
                        listener, lastSentDirection, written>>

\* The device chooser of requestDevice is showing.  It takes the next click:
\* the page's button is not clicked before the user has chosen or cancelled.
ChooserOpen == \E i \in 1..Len(attempts) : attempts[i].pc = "request"

\* the branch the click handler takes
WantsConnect == ~IsUp(bleDevice)

\* click, connect branch: connectBluetooth runs up to requestDevice
ClickConnect ==
    /\ WantsConnect
    /\ ~ChooserOpen
    /\ attempts' = Canon(Append(attempts, Attempt("request", Null, TRUE)))
    /\ wire' = NoWrite
    /\ fault' = NoFault
    /\ UNCHANGED <<bleDevice, bleCharacteristic, gattConnected, listener,
                   lastSentDirection, written, tick, timers>>
    /\ UNCHANGED cvVars

\* click, disconnect branch: disconnectBluetooth
ClickDisconnect ==
    /\ ~WantsConnect
    /\ ~ChooserOpen
    /\ Disconnect(bleDevice, attempts, TRUE)
    /\ wire' = NoWrite
    /\ fault' = NoFault
    /\ UNCHANGED <<tick, timers>>
    /\ UNCHANGED cvVars

\* the link of a connected device drops on its own
LinkLost(d) ==
    /\ gattConnected[d]
    /\ Disconnect(d, attempts, FALSE)
    /\ wire' = NoWrite
    /\ fault' = NoFault
    /\ UNCHANGED <<tick, timers>>
    /\ UNCHANGED cvVars

\* requestDevice resolves with the device the user chose; bleDevice is
\* assigned and gatt.connect() is called on it
DeviceChosen(i, d) ==
    /\ i \in 1..Len(attempts)
    /\ attempts[i].pc = "request"
    /\ bleDevice' = d
    /\ attempts' = Canon([attempts EXCEPT ![i] = Attempt("connect", d, TRUE)])
    /\ wire' = NoWrite
    /\ fault' = NoFault
    /\ UNCHANGED <<bleCharacteristic, gattConnected, listener,
                   lastSentDirection, written, tick, timers>>
    /\ UNCHANGED cvVars

\* gatt.connect() resolves; getPrimaryService is called on the server, and
\* getCharacteristic on the service it resolves with (nothing the program
\* holds changes between these two awaits: they are one stage here)
GattConnected(i) ==
    /\ i \in 1..Len(attempts)
    /\ attempts[i].pc = "connect"
    /\ attempts[i].live
    /\ gattConnected' = [gattConnected EXCEPT ![attempts[i].dev] = TRUE]
    /\ attempts' = Canon([attempts EXCEPT ![i].pc = "lookup"])
    /\ wire' = NoWrite
    /\ fault' = NoFault
    /\ UNCHANGED <<bleDevice, bleCharacteristic, listener,
                   lastSentDirection, written, tick, timers>>
    /\ UNCHANGED cvVars

\* getCharacteristic resolves: the handle is stored; bleDevice.name throws a
\* TypeError when bleDevice is null by now (caught, and the catch finds
\* nothing to disconnect), else onDisconnected is registered on bleDevice
CharacteristicFound(i) ==
    /\ i \in 1..Len(attempts)
    /\ attempts[i].pc = "lookup"
    /\ attempts[i].live
    /\ bleCharacteristic' = attempts[i].dev
    /\ written' = <<>>
    /\ listener' = IF bleDevice = Null THEN listener
                   ELSE [listener EXCEPT ![bleDevice] = TRUE]
    /\ attempts' = Remove(attempts, i)
    /\ wire' = NoWrite
    /\ fault' = NoFault
    /\ UNCHANGED <<bleDevice, gattConnected, lastSentDirection, tick, timers>>
    /\ UNCHANGED cvVars

\* the awaited promise of invocation i rejects (chooser cancelled, connect
\* failed, service or characteristic missing, connection gone): catch block
AttemptFails(i) ==
    /\ i \in 1..Len(attempts)
    /\ CatchBT(i)
    /\ wire' = NoWrite
    /\ fault' = NoFault
    /\ UNCHANGED <<tick, timers>>
    /\ UNCHANGED cvVars

\* ------------------------------------------------------------------- next
Next ==
    \/ OnCvReady /\ UNCHANGED obsVars
    \/ /\ \E fOk, eOk, fInit, eInit \in BOOLEAN : CascadesSettled(fOk, eOk, fInit, eInit)
       /\ UNCHANGED obsVars
    \/ (\E granted \in BOOLEAN : CameraSettled(granted)) /\ UNCHANGED obsVars
    \/ CanPlay /\ UNCHANGED obsVars
    \/ /\ \E faces \in Frames : Tick(faces)
       /\ Len(timers') <= MaxTimers
       /\ UNCHANGED obsVars
    \/ (\E stage \in Stages : TickThrows(stage)) /\ UNCHANGED obsVars
    \/ TimerFire /\ UNCHANGED obsVars
    \/ ClickConnect /\ Len(attempts') <= MaxAttempts /\ UNCHANGED obsVars
    \/ ClickDisconnect /\ UNCHANGED obsVars
    \/ (\E d \in Devices : LinkLost(d)) /\ UNCHANGED obsVars
    \/ (\E i \in 1..Len(attempts), d \in Devices : DeviceChosen(i, d)) /\ UNCHANGED obsVars
    \/ (\E i \in 1..Len(attempts) : GattConnected(i)) /\ UNCHANGED obsVars
    \/ (\E i \in 1..Len(attempts) : CharacteristicFound(i)) /\ UNCHANGED obsVars
    \/ (\E i \in 1..Len(attempts) : AttemptFails(i)) /\ UNCHANGED obsVars

Spec == Init /\ [][Next]_vars

\* ------------------------------------------------------------- observers
\* The observers record, beside the program, what the claims about streams
\* of directions speak of.  They read the program's variables and never
\* guard or change them.

\* onDisconnected ran in this step
OnDisconnectedRan ==
    \E d \in Devices : gattConnected[d] /\ ~gattConnected'[d] /\ listener[d]

Min(a, b) == IF a < b THEN a ELSE b

\* a tick observes dir while the handle is held, lastSentDirection is dir, dir
\* is what was last written and no timer is pending: an oscillation may start
OscStart(dir) ==
    /\ bleCharacteristic # Null
    /\ dir \in Dirs
    /\ lastSentDirection = dir
    /\ timers = <<>>
    /\ written = <<Encode(dir)>>

\* stage 1: A observed; stage 2: then B; stage 3: then A again while the timer
\* armed for B was still pending, and A at every tick since
OscStep(dir) ==
    IF osc.stage = 1 /\ dir \in Dirs \ {osc.a}
    THEN [stage |-> 2, a |-> osc.a, b |-> dir]
    ELSE IF osc.stage = 2 /\ dir = osc.a /\ timers = <<osc.b>>
    THEN [stage |-> 3, a |-> osc.a, b |-> osc.b]
    ELSE IF osc.stage = 3 /\ dir = osc.a
    THEN osc
    ELSE IF OscStart(dir)
    THEN [stage |-> 1, a |-> dir, b |-> ""]
    ELSE NoOsc

\* the stream settles on dir at a tick that observes dir while the handle is
\* held and lastSentDirection differs from it; it stays settled while every
\* tick observes dir
SettleStep(dir) ==
    IF bleCharacteristic # Null /\ dir \in Dirs /\ lastSentDirection # dir
    THEN [dir |-> dir, n |-> 0]
    ELSE IF settle.dir = dir THEN settle
    ELSE NoSettle

ObserveTick ==
    /\ osc' = OscStep(tick'.direction)
    /\ settle' = SettleStep(tick'.direction)
    /\ stale' = stale

\* n counts the writes of the settled direction, up to 2
ObserveFire ==
    /\ osc' = osc
    /\ settle' = IF settle.dir # "" /\ wire' = <<Encode(settle.dir)>>
                 THEN [settle EXCEPT !.n = Min(settle.n + 1, 2)]
                 ELSE settle
    /\ stale' = IF stale > 0 THEN stale - 1 ELSE 0

\* a disconnect ends the stream under observation; every timer pending then
\* was armed before it
ObserveLink ==
    /\ osc' = IF OnDisconnectedRan \/ bleCharacteristic' # bleCharacteristic
              THEN NoOsc ELSE osc
    /\ settle' = IF OnDisconnectedRan \/ bleCharacteristic' # bleCharacteristic
                 THEN NoSettle ELSE settle
    /\ stale' = IF OnDisconnectedRan THEN Len(timers) ELSE stale

\* The program with its observers, the user clicking the button only while no
\* connect attempt is in flight.
NextSession ==
    \/ OnCvReady /\ UNCHANGED obsVars
    \/ /\ \E fOk, eOk, fInit, eInit \in BOOLEAN : CascadesSettled(fOk, eOk, fInit, eInit)
       /\ UNCHANGED obsVars
    \/ (\E granted \in BOOLEAN : CameraSettled(granted)) /\ UNCHANGED obsVars
    \/ CanPlay /\ UNCHANGED obsVars
    \/ /\ \E faces \in Frames : Tick(faces)
       /\ Len(timers') <= MaxTimers + 1
       /\ ObserveTick
    \/ (\E stage \in Stages : TickThrows(stage)) /\ ObserveTick
    \/ TimerFire /\ ObserveFire
    \/ attempts = <<>> /\ ClickConnect /\ ObserveLink
    \/ ClickDisconnect /\ ObserveLink
    \/ (\E d \in Devices : LinkLost(d)) /\ ObserveLink
    \/ (\E i \in 1..Len(attempts), d \in Devices : DeviceChosen(i, d)) /\ ObserveLink
    \/ (\E i \in 1..Len(attempts) : GattConnected(i)) /\ ObserveLink
    \/ (\E i \in 1..Len(attempts) : CharacteristicFound(i)) /\ ObserveLink
    \/ (\E i \in 1..Len(attempts) : AttemptFails(i)) /\ ObserveLink

SpecSession == Init /\ [][NextSession]_vars

\* ------------------------------------------------------------------ claims
\* the directions whose encoding is p
Decode(p) == {d \in Direction \cup {""} : Encode(d) = p}

\* C1: within one session (one held handle) no direction is written twice in a
\* row: a write never carries the payload of the write before it.
C1_NoRepeatedWrite ==
    [][(wire' # <<>> /\ written # <<>>) => wire' # written]_vars

\* C2: once ticks observed A, B, A (lastSentDirection = A before, the last A
\* seen while the timer armed for B was pending) and A ever since, nothing is
\* written.
C2_OscillationSilent == osc.stage = 3 => wire = <<>>

\* C3: lastSentDirection takes a direction D only in a step that writes D.
C3_SetOnlyAtCommit ==
    [][(lastSentDirection' # lastSentDirection /\ lastSentDirection' \in Dirs)
        => wire' = <<Encode(lastSentDirection')>>]_vars

\* C4: a timer that fires writes D only if the most recent tick observed D
\* (judged where the most recent run of processVideo reached sendDirection).
C4_WritesLatestObservation ==
    [][(wire' # <<>> /\ tick.direction \in Direction)
        => wire' = <<Encode(tick.direction)>>]_vars

\* C5: the direction a stream settled on is written at most once (the safety
\* half of "eventually, and exactly once").
C5_SettledWrittenOnce == settle.n <= 1

\* C6: a tick that observes the direction lastSentDirection already holds arms
\* no timer, writes nothing and leaves lastSentDirection as it is.
C6_RepeatedObservationQuiet ==
    [][\A f \in Frames :
        (/\ streaming
         /\ lastSentDirection \in Dirs
         /\ Verdict[f].direction = lastSentDirection
         /\ Tick(f))
        => (timers' = timers /\ wire' = <<>> /\ written' = written
            /\ lastSentDirection' = lastSentDirection)]_vars

\* a tick observed the direction that was written last, and armed nothing
C6_Witness ==
    /\ bleCharacteristic # Null
    /\ lastSentDirection \in Dirs
    /\ tick.direction = lastSentDirection
    /\ written = <<Encode(lastSentDirection)>>
    /\ timers = <<>>
    /\ wire = <<>>

\* C7: every payload handed to writeValue is the encoding of exactly one of
\* LEFT, RIGHT, CENTER, BLINK, never of NO FACE or of the empty string.
C7_PayloadIsDirection ==
    \A i \in 1..Len(wire) :
        /\ Decode(wire[i]) \subseteq Dirs
        /\ Cardinality(Decode(wire[i])) = 1

\* the bytes of "BLINK" were written
C7_Witness == wire = << <<66, 76, 73, 78, 75>> >>

\* C8: a tick whose face detection finds nothing computes NO FACE, runs no eye
\* detection, arms no timer, writes nothing, and leaves lastSentDirection,
\* bleDevice and bleCharacteristic alone.
C8_NoFaceTickInert ==
    [][\A f \in Frames :
        (streaming /\ Len(f) = 0 /\ Tick(f))
        => (/\ tick'.direction = NO_FACE
            /\ ~tick'.eyesRun
            /\ timers' = timers
            /\ wire' = <<>>
            /\ lastSentDirection' = lastSentDirection
            /\ bleDevice' = bleDevice
            /\ bleCharacteristic' = bleCharacteristic)]_vars

\* a faceless tick ran while a handle was held, a direction remembered and a
\* timer pending
C8_Witness ==
    /\ tick = [direction |-> NO_FACE, eyesRun |-> FALSE, gazeRun |-> FALSE]
    /\ bleCharacteristic # Null
    /\ lastSentDirection \in Dirs
    /\ timers # <<>>

\* C9: a timer armed before a disconnect writes nothing when it fires after it.
C9_StaleTimerSilent ==
    [][(stale > 0 /\ stale' < stale) => wire' = <<>>]_vars

\* C10: when the connection of the device whose handle is held ends, by
\* the button or by the link, lastSentDirection is emptied and bleDevice and
\* bleCharacteristic are null.
C10_DisconnectResets ==
    [][\A d \in Devices :
        (bleCharacteristic = d /\ gattConnected[d] /\ ~gattConnected'[d])
        => (lastSentDirection' = "" /\ bleCharacteristic' = Null
            /\ bleDevice' = Null)]_vars

\* C11: a connectBluetooth call that fails, at whichever await, ends with the
\* link down (the device it was connecting and the one bleDevice names are
\* not connected), with bleCharacteristic null, and starts no new call.
C11_FailedConnectClean ==
    [][\A i \in 1..Len(attempts) :
        AttemptFails(i)
        => (/\ bleCharacteristic' = Null
            /\ ~IsUp(bleDevice)'
            /\ attempts[i].dev # Null => ~gattConnected'[attempts[i].dev]
            /\ Len(attempts') = Len(attempts) - 1)]_vars

\* C12: while no characteristic handle is held, the sendDirection call of a
\* tick, whatever the direction, arms no timer, writes nothing, leaves
\* lastSentDirection as it is, and the tick completes (the next one is
\* scheduled).
C12_NoHandleNoSend ==
    [][\A f \in Frames :
        (bleCharacteristic = Null /\ streaming /\ Tick(f))
        => (/\ timers' = timers
            /\ lastSentDirection' = lastSentDirection
            /\ wire' = <<>>
            /\ written' = written
            /\ raf')]_vars

\* a tick computed LEFT in a page that never held a handle
C12_Witness ==
    /\ tick.direction = "LEFT"
    /\ bleCharacteristic = Null
    /\ \A d \in Devices : ~listener[d]
    /\ lastSentDirection = ""
    /\ timers = <<>>

\* C13: whenever a characteristic handle is held, bleDevice is the device it
\* belongs to and that device's GATT server is connected (so no handle is
\* held in a disconnected state).
C13_HandleOfConnectedDevice ==
    bleCharacteristic # Null
    => (bleDevice = bleCharacteristic /\ IsUp(bleDevice))

\* C14: an error of a committed send's writeValue is caught where the send is
\* made, and the step changes neither bleDevice nor bleCharacteristic nor
\* stops the frame loop.
C14_WriteFaultCaught ==
    [][fault' # NoFault
        => (/\ fault' = "caught"
            /\ bleDevice' = bleDevice
            /\ bleCharacteristic' = bleCharacteristic
            /\ raf' = raf)]_vars

\* C15: a processVideo run that throws before it has a direction dispatches
\* nothing (lastSentDirection and the pending timers are as before, nothing
\* is written) and requests the next frame; once the loop runs, every step,
\* a normal or a failing run included, leaves a run requested.
C15_ThrowingTickInert ==
    [][/\ \A stage \in Stages :
            TickThrows(stage)
            => (/\ lastSentDirection' = lastSentDirection
                /\ timers' = timers
                /\ wire' = <<>>
                /\ raf')
       /\ raf => raf']_vars

\* a run threw inside detectGaze with a handle held and a timer pending
C15_Witness ==
    /\ tick = Threw("gaze")
    /\ raf
    /\ bleCharacteristic # Null
    /\ lastSentDirection \in Dirs
    /\ timers # <<>>

\* C16: when a cascade file fails to load or a classifier fails to initialise,
\* startCamera is not called, and from then on the camera is never asked for,
\* streaming stays false, no run of processVideo is requested or made, and
\* no timer is armed.
C16_NoCascadeNoPipeline ==
    [][/\ \A fOk, eOk, fInit, eInit \in BOOLEAN :
            (CascadesSettled(fOk, eOk, fInit, eInit)
                /\ ~(fOk /\ eOk /\ fInit /\ eInit))
            => (camera' = "off" /\ ~streaming' /\ ~raf' /\ tick' = NoTick)
       /\ (pcCv = "done" /\ camera = "off")
            => (/\ camera' = "off"
                /\ ~streaming'
                /\ ~raf'
                /\ tick' = NoTick
                /\ timers' = <<>>
                /\ lastSentDirection' = "")]_vars

\* the classifiers were constructed but failed to initialise; later a
\* receiver was connected, and still nothing runs
C16_Witness ==
    /\ pcCv = "done"
    /\ faceCascade = "object"
    /\ camera = "off"
    /\ bleCharacteristic # Null
    /\ ~streaming
    /\ ~raf
    /\ tick = NoTick

\* the frames with a face whose region holds two or more eyes
TwoEyed == {f \in Frames : Len(f) > 0 /\ Len(f[1].eyes) >= 2}

\* what the blink rule asks of each such frame: BLINK and no gaze estimate
\* for a flat left eye, else the gaze estimate of that eye
BlinkOrGaze ==
    [f \in TwoEyed |->
        LET e == SortByX(f[1].eyes)[1]
        IN  IF e.height * 100 < BLINK_RATIO_THRESHOLD * e.width
            THEN [direction |-> "BLINK", gazeRun |-> FALSE]
            ELSE [direction |-> detectGaze(e), gazeRun |-> TRUE]]

\* C17: on a tick with a face and two or more eyes, a left eye rectangle with
\* height / width below BLINK_RATIO_THRESHOLD gives BLINK without the gaze
\* estimator being run, whatever its pixels; at or above the threshold the
\* direction is what the gaze estimator returns for that rectangle.
C17_BlinkBeforeGaze ==
    [][\A f \in TwoEyed :
        (streaming /\ tick' = Verdict[f] /\ Tick(f))
        => (/\ tick'.direction = BlinkOrGaze[f].direction
            /\ tick'.gazeRun = BlinkOrGaze[f].gazeRun)]_vars

\* a tick took the blink branch and BLINK was written; among the frames is a
\* flat left eye whose pixels the gaze estimator would call LEFT
C17_Witness ==
    /\ tick = [direction |-> "BLINK", eyesRun |-> TRUE, gazeRun |-> FALSE]
    /\ wire = <<Encode("BLINK")>>
    /\ detectGaze(eyeNarrow(10)) = "LEFT"
    /\ <<Face(<<eyeNarrow(10), eyeRight(60)>>)>> \in Frames

\* the frames with a face whose region holds fewer than two eyes
FewEyed == {f \in Frames : Len(f) > 0 /\ Len(f[1].eyes) < 2}

\* C18: on a tick with a face but fewer than two eyes the eye detector has run,
\* blink and gaze logic have not, the direction is NO FACE whatever the tick
\* before computed, and nothing is dispatched.
C18_FewEyesNoFace ==
    [][\A f \in FewEyed :
        (streaming /\ Tick(f))
        => (/\ tick'.direction = NO_FACE
            /\ tick'.eyesRun
            /\ ~tick'.gazeRun
            /\ timers' = timers
            /\ lastSentDirection' = lastSentDirection
            /\ wire' = <<>>)]_vars

\* a direction had been written, then a tick found a face with fewer than
\* two eyes
C18_Witness ==
    /\ tick = [direction |-> NO_FACE, eyesRun |-> TRUE, gazeRun |-> FALSE]
    /\ bleCharacteristic # Null
    /\ lastSentDirection \in Dirs
    /\ written = <<Encode(lastSentDirection)>>
    /\ timers = <<>>

\* the rectangles of a sequence with the smallest x
Leftmost(eyes) ==
    {eyes[i] : i \in {k \in 1..Len(eyes) : \A j \in 1..Len(eyes) : eyes[k].x <= eyes[j].x}}

\* the pairs of a two-eyed frame and a direction it may yield if a leftmost
\* eye rectangle of its first face decides, and nothing else
LeftmostVerdicts ==
    UNION {{<<f, IF IsBlink(e) THEN "BLINK" ELSE detectGaze(e)>> :
                e \in Leftmost(f[1].eyes)} : f \in TwoEyed}

\* the pair processVideo takes from the sorted rectangles (lines 144-145) has
\* the two smallest x of all
PairIsLeftmost(eyes) ==
    LET s == SortByX(eyes)
    IN  /\ Len(s) = Len(eyes)
        /\ s[1] \in Leftmost(eyes)
        /\ s[1].x <= s[2].x
        /\ \A k \in 3..Len(s) : s[2].x <= s[k].x

PairsAreLeftmost == \A f \in TwoEyed : PairIsLeftmost(f[1].eyes)

\* C19: with two or more eye rectangles in the first face, in whatever order
\* the detector lists them, the pair taken is the two with the smallest x,
\* and the tick's direction is the blink / gaze verdict of the rectangle with
\* the smallest x; other eyes and other faces do not count.
C19_LeftmostEyeDecides ==
    [][\A f \in TwoEyed :
        (streaming /\ Tick(f))
        => (<<f, tick'.direction>> \in LeftmostVerdicts /\ PairsAreLeftmost)]_vars

\* RIGHT was written: among the frames, only such give RIGHT whose leftmost
\* eye is not the first the detector lists
C19_Witness ==
    /\ tick.direction = "RIGHT"
    /\ wire = <<Encode("RIGHT")>>
    /\ \A f \in TwoEyed :
         Verdict[f].direction = "RIGHT" => f[1].eyes[1] \notin Leftmost(f[1].eyes)

\* the frames whose leftmost eye goes to the gaze estimator
Gazed == {f \in TwoEyed : BlinkOrGaze[f].gazeRun}

\* the foreground moments of the eye detectGaze is given
GazedMoments(f) == Moments(SortByX(f[1].eyes)[1].fg)
GazedCols(f) == SortByX(f[1].eyes)[1].width

\* the direction if a sample is rejected exactly when its mass is below the
\* threshold
BandsFromThreshold ==
    [f \in Gazed |->
        IF GazedMoments(f).m00 < MIN_MASS THEN "CENTER"
        ELSE RatioBand(GazedMoments(f), GazedCols(f))]

\* the direction if a sample is rejected exactly when its mass is at or below
\* the threshold
BandsAboveThreshold ==
    [f \in Gazed |->
        IF GazedMoments(f).m00 <= MIN_MASS THEN "CENTER"
        ELSE RatioBand(GazedMoments(f), GazedCols(f))]

Mirror(eyeRect) ==
    Eye(eyeRect.x, eyeRect.width, eyeRect.height,
        [c \in 1..Len(eyeRect.fg) |-> eyeRect.fg[Len(eyeRect.fg) + 1 - c]])

\* the frames whose leftmost eye reaches the ratio bands of the gaze estimator
Banded == {f \in Gazed : MassOk(GazedMoments(f))}

\* what the gaze estimator returns for the mirror image of the eye it is given
MirrorGaze == [f \in Banded |-> detectGaze(Mirror(SortByX(f[1].eyes)[1]))]

\* C21: for every eye region whose mass passes the minimum, the gaze estimator
\* calls the region LEFT if and only if it calls its horizontal mirror image
\* RIGHT.
C21_MirrorOpposite ==
    [][\A f \in Banded :
        (streaming /\ Tick(f)) =>
            (tick'.direction = "LEFT" <=> MirrorGaze[f] = "RIGHT")]_vars

\* C22: a remembered direction exists only while a handle is held
\* (bleCharacteristic = null implies lastSentDirection is empty), and so a
\* timer whose lastSentDirection === direction test passes finds a handle: the
\* deferred write never goes through a null handle.
C22_RememberedOnlyWithHandle ==
    /\ [](bleCharacteristic = Null => lastSentDirection = "")
    /\ [][(TimerFire /\ CommitSend(Head(timers))) =>
            (bleCharacteristic # Null /\ fault' # "caught"
             /\ wire' = <<Encode(Head(timers))>>)]_vars

\* the handle went away after a direction had been remembered and scheduled:
\* onDisconnected has cleared both, and the timer is still pending
C22_Witness ==
    /\ bleCharacteristic = Null
    /\ lastSentDirection = ""
    /\ timers # <<>>
    /\ tick.direction \in Dirs
    /\ \E d \in Devices : listener[d]

\* C23: a click on the connect button while a connectBluetooth invocation is
\* still in progress (device requested or GATT steps pending) starts no second
\* one: at most one invocation is in flight at any time.
C23_OneConnectInFlight == Len(attempts) <= 1

====
